---- MODULE Spec2Model ----
(***************************************************************************)
(* Model of the index dump loop of escli (escli/staticcmds/src/dump.rs):   *)
(* Dump::execute and persist_ndjson, with the backend and the sink as the  *)
(* environment.  Every await point of Dump::execute is one step: a request *)
(* is issued by one action and its response is consumed by the next.       *)
(***************************************************************************)
EXTENDS Integers, Sequences, FiniteSets, TLC

(***************************************************************************)
(* Bounds of the model.                                                    *)
(***************************************************************************)
\* longest list of indices given on the command line
MaxIndices == 2
\* largest value of --size; a page never holds more documents than size
MaxSize == 2
\* number of documents the backend hands out during one run
MaxDocs == 2

(***************************************************************************)
(* Values.  Option<T> is a sequence of length at most one: <<>> is None    *)
(* and <<x>> is Some(x).  The code never compares two tokens or two        *)
(* documents, so the backend of the model issues a fresh token with every  *)
(* answer and fresh documents with every page: any reuse, loss or          *)
(* reordering of one shows.                                                *)
(***************************************************************************)
None == "none"
IndexNames == <<"a", "b", "c", "d">>
DocNames == <<"d1", "d2", "d3", "d4", "d5">>
\* caller-supplied timeouts, in seconds
Timeouts == {<<>>, <<30>>}
\* HTTP status codes the backend answers with
Statuses == {200, 500}

\* Hit.sort (Vec<u64>) of the n-th document of the backend: empty, its ordinal,
\* or its ordinal followed by a second key
SortKeys(n) == {<<>>, <<n>>, <<n, 0>>}

\* the pages of k documents that follow the first `from` documents
PagesOf(from, k) ==
    {[j \in 1..k |-> [_source |-> DocNames[from + j], sort |-> f[j]]] :
        f \in {g \in [1..k -> UNION {SortKeys(from + j) : j \in 1..k}] :
                  \A j \in 1..k : g[j] \in SortKeys(from + j)}}

\* the pages of at most n documents
Pages(from, n) == UNION {PagesOf(from, k) : k \in 0..n}

\* A response body is a JSON object; a field that is absent is <<>> (has_hits
\* FALSE for "hits"), and error says whether the object fits ElasticsearchError.
Body(id, pit_id, has_hits, hits, error) ==
    [id |-> id, pit_id |-> pit_id, has_hits |-> has_hits, hits |-> hits, error |-> error]

EmptyBody == Body(<<>>, <<>>, FALSE, <<>>, FALSE)
ErrorBody == Body(<<>>, <<>>, FALSE, <<>>, TRUE)

\* bodies the backend answers an open call with; tok is the token it issues
PitBodies(tok) ==
    {Body(<<tok>>, <<>>, FALSE, <<>>, FALSE), Body(<<tok>>, <<>>, FALSE, <<>>, TRUE),
     ErrorBody, EmptyBody}

\* bodies the backend answers a search with, holding at most n documents
SearchBodies(tok, from, n) ==
    {Body(<<>>, <<tok>>, TRUE, h, FALSE) : h \in Pages(from, n)}
        \cup {Body(<<>>, <<tok>>, TRUE, <<>>, TRUE), Body(<<>>, <<tok>>, FALSE, <<>>, FALSE)}
        \cup {ErrorBody, EmptyBody}

\* --keep-alive
keep_alive == "1m"

VARIABLES
    indices,            \* self.indices
    size,               \* self.size
    t,                  \* the request timeout of execute
    pc,                 \* position in execute
    i,                  \* position of `index` in indices
    initial_pit,        \* Option: initial_pit.id
    initial_documents,  \* Option: the first page of the index
    documents,          \* Option: the page of the current loop iteration
    response,           \* Option: the response that was received and not yet read
    next_pit,           \* Option: the token of the next search
    next_search_after,  \* Option<u64>
    output,             \* chunks written to the sink so far
    flushed,            \* number of chunks of output that were flushed
    closed,             \* the sink was shut down
    requests,           \* requests issued to the backend
    received,           \* tokens and pages decoded from the responses
    diag,               \* eprintln! lines
    result              \* what execute returned

\* the code generator (generator/src/path_parameter.rs, endpoint.rs)
VARIABLES
    path_param,          \* Option: the PathParameter pattern_params is called on
    pattern,             \* Option: what pattern_params returned
    urls,                \* self.e.urls
    path_parameters,     \* self.path_parameters
    optional_parameters, \* the argument of build_path_parameters
    path_params,         \* the Vec<PathParameter> build_path_parameters builds
    url,                 \* position of `url` in urls
    returned             \* build_path_parameters has returned

DumpVars == <<indices, size, t, pc, i, initial_pit, initial_documents, documents,
              response, next_pit, next_search_after, output, flushed, closed,
              requests, received, diag, result>>
Generator == <<path_param, pattern, urls, path_parameters, optional_parameters,
               path_params, url, returned>>

vars == <<DumpVars, Generator>>

\* let t = timeout.unwrap_or(Duration::from_secs(60))
DefaultTimeout == 60
UnwrapTimeout(timeout) == IF timeout = <<>> THEN DefaultTimeout ELSE timeout[1]

(***************************************************************************)
(* Response decoding: serde's untagged enums try the variants in order.    *)
(***************************************************************************)
\* DecodePit without the Error variant
DecodePitTokenOnly(body) == IF body.id # <<>> THEN "Success" ELSE "Err"

\* DecodePit taking every body without token for an error envelope
DecodePitLenient(body) == IF body.id # <<>> THEN "Success" ELSE "Error"

\* pit_response.json::<PointInTimeVariant>()
DecodePit(body) ==
    IF body.id # <<>> THEN "Success"
    ELSE IF body.error THEN "Error"
    ELSE "Err"

\* DecodeSearch without the Error variant
DecodeSearchPageOnly(body) ==
    IF body.pit_id # <<>> /\ body.has_hits THEN "Success" ELSE "Err"

\* DecodeSearch taking every body that is no page for an error envelope
DecodeSearchLenient(body) ==
    IF body.pit_id # <<>> /\ body.has_hits THEN "Success" ELSE "Error"

\* DecodeSearch trying the Error variant first
DecodeSearchErrorFirst(body) ==
    IF body.error THEN "Error"
    ELSE IF body.pit_id # <<>> /\ body.has_hits THEN "Success"
    ELSE "Err"

\* search_response.json::<SearchResultsVariant>()
DecodeSearch(body) ==
    IF body.pit_id # <<>> /\ body.has_hits THEN "Success"
    ELSE IF body.error THEN "Error"
    ELSE "Err"

\* PitStatusFailed with the status never looked at
PitStatusIgnored(status) == FALSE

\* pit_response.status_code() != http::StatusCode::OK
PitStatusFailed(status) == status # 200

(***************************************************************************)
(* Requests.                                                               *)
(***************************************************************************)
Request(kind, index, pit, has_search_after, search_after, timeout) ==
    [kind |-> kind, index |-> index, size |-> IF kind = "search" THEN size ELSE 0,
     pit |-> pit, keep_alive |-> keep_alive,
     query |-> IF kind = "search" THEN "match_all" ELSE None,
     sort |-> IF kind = "search" THEN "_shard_doc:asc" ELSE None,
     has_search_after |-> has_search_after, search_after |-> search_after,
     timeout |-> timeout]

\* OpenPitRequest naming the first index of the list
OpenPitRequestOfFirst(name) == Request("open", indices[1], <<>>, FALSE, <<>>, <<t>>)

\* client.open_point_in_time(Index(&[index])).keep_alive(..).request_timeout(t)
OpenPitRequest(index) == Request("open", index, <<>>, FALSE, <<>>, <<t>>)

\* InitialSearchRequest without the keep_alive of the pit
InitialSearchRequestNoKeepAlive(index, pit) ==
    [Request("search", index, <<pit>>, FALSE, <<>>, <<>>) EXCEPT !.keep_alive = None]

\* the body of the first search of an index
InitialSearchRequest(index, pit) == Request("search", index, <<pit>>, FALSE, <<>>, <<>>)

\* Option<u64>
NoneU64 == [some |-> FALSE, v |-> 0]
Some(x) == [some |-> TRUE, v |-> x]

\* SearchAfterValue with the cursor dropped
SearchAfterValueDropped(search_after) == <<>>

\* next_search_after.map(|x| vec![x]).unwrap_or_default()
SearchAfterValue(search_after) ==
    IF search_after.some THEN <<search_after.v>> ELSE <<>>

\* the payload of the searches of the loop
SearchAfterRequest(index, pit, search_after) ==
    Request("search", index, <<pit>>, TRUE, SearchAfterValue(search_after), <<>>)

\* NextSearchAfter taking the first document of the page, not the last
NextSearchAfterOfFirstHit(hits) ==
    IF hits = <<>> THEN NoneU64
    ELSE IF hits[1].sort = <<>> THEN NoneU64
    ELSE Some(hits[1].sort[1])

\* hits.last().and_then(|hit| hit.sort.first()).copied()
NextSearchAfter(hits) ==
    IF hits = <<>> THEN NoneU64
    ELSE IF hits[Len(hits)].sort = <<>> THEN NoneU64
    ELSE Some(hits[Len(hits)].sort[1])

\* NextPit keeping the token of the open call
NextPitStale(page) == initial_pit[1]

\* next_pit = documents.pit_id
NextPit(page) == page.pit_id[1]

\* if documents.hits.hits.is_empty() { break; }
PageEndsLoop(hits) == hits = <<>>

(***************************************************************************)
(* The sink.  left is the number of sink operations that still succeed.    *)
(***************************************************************************)
Newline == <<"\n">>
\* serde_json::to_string(&json!({ "index": { "_index": index } }))
ActionLine(index) == <<"index", "_index", index>>
\* serde_json::to_string(&doc._source)
SourceLine(doc) == <<"_source", doc._source>>

Sink(out, fl, left) == [out |-> out, flushed |-> fl, left |-> left, ok |-> TRUE]

\* output.write_all(buf).await?
WriteAll(s, buf) ==
    IF ~s.ok THEN s
    ELSE IF s.left = 0 THEN [s EXCEPT !.ok = FALSE]
    ELSE [s EXCEPT !.out = Append(@, buf), !.left = @ - 1]

\* Flush with the Err of flush dropped
FlushIgnoringErr(s) ==
    IF ~s.ok \/ s.left = 0 THEN s
    ELSE [s EXCEPT !.flushed = Len(s.out), !.left = @ - 1]

\* output.flush().await?
Flush(s) ==
    IF ~s.ok THEN s
    ELSE IF s.left = 0 THEN [s EXCEPT !.ok = FALSE]
    ELSE [s EXCEPT !.flushed = Len(s.out), !.left = @ - 1]

\* PersistDoc writing the source line before the action line
PersistDocSourceFirst(s, index, doc) ==
    WriteAll(WriteAll(WriteAll(WriteAll(s, SourceLine(doc)), Newline),
                      ActionLine(index)), Newline)

\* the body of the for loop of persist_ndjson
PersistDoc(s, index, doc) ==
    WriteAll(WriteAll(WriteAll(WriteAll(s, ActionLine(index)), Newline),
                      SourceLine(doc)), Newline)

RECURSIVE PersistDocsReversed(_, _, _)
\* PersistDocs walking the page from its last document to its first
PersistDocsReversed(s, index, hits) ==
    IF hits = <<>> THEN s
    ELSE PersistDoc(PersistDocsReversed(s, index, Tail(hits)), index, Head(hits))

RECURSIVE PersistDocs(_, _, _)
\* for doc in result.hits.hits.iter()
PersistDocs(s, index, hits) ==
    IF hits = <<>> THEN s
    ELSE PersistDocs(PersistDoc(s, index, Head(hits)), index, Tail(hits))

\* persist_ndjson without the flush of line 372
persist_ndjson_unflushed(hits, index, s) == PersistDocs(s, index, hits)

\* lines 359-373: every document is written, then the sink is flushed
persist_ndjson(hits, index, s) == Flush(PersistDocs(s, index, hits))

\* number of sink operations of persist_ndjson on a page
PersistOps(hits) == 4 * Len(hits) + 1

(***************************************************************************)
(* The environment: what the backend answers.                              *)
(***************************************************************************)
Response(status, body) == [ok |-> TRUE, status |-> status, body |-> body]

\* send() returned an Err: neither a status nor a body arrived
TransportError == [ok |-> FALSE, status |-> 0, body |-> EmptyBody]

RECURSIVE DocsIn(_)
\* number of documents of the pages of a log
DocsIn(log) ==
    IF log = <<>> THEN 0 ELSE Len(Head(log).hits) + DocsIn(Tail(log))

Min(a, b) == IF a < b THEN a ELSE b

\* the backend returns at most size documents per page
PageLimit == Min(size, MaxDocs - DocsIn(received))

\* the token the backend issues with the answer to the latest request
FreshToken == Len(requests)

PitResponses ==
    {TransportError}
        \cup {Response(st, b) : st \in Statuses, b \in PitBodies(FreshToken)}

SearchResponses ==
    {TransportError}
        \cup {Response(st, b) : st \in Statuses,
                  b \in SearchBodies(FreshToken, DocsIn(received), PageLimit)}

\* what the run decoded from the backend: the token of an open call, or the
\* token and the documents of a page
Decoded(kind, pit, hits) == [kind |-> kind, i |-> i, pit |-> pit, hits |-> hits]

(***************************************************************************)
(* Dump::execute.                                                          *)
(***************************************************************************)
index == indices[i]

\* the generator does not run
NoGenerator ==
    /\ path_param = <<>>
    /\ pattern = <<>>
    /\ urls = <<>>
    /\ path_parameters = <<>>
    /\ optional_parameters = {}
    /\ path_params = <<>>
    /\ url = 1
    /\ returned = FALSE

Init ==
    /\ NoGenerator
    /\ indices \in {SubSeq(IndexNames, 1, n) : n \in 1..MaxIndices}
    /\ size = MaxSize
    /\ t \in {UnwrapTimeout(timeout) : timeout \in Timeouts}
    /\ pc = "for"
    /\ i = 1
    /\ initial_pit = <<>>
    /\ initial_documents = <<>>
    /\ documents = <<>>
    /\ response = <<>>
    /\ next_pit = <<>>
    /\ next_search_after = NoneU64
    /\ output = <<>>
    /\ flushed = 0
    /\ closed = FALSE
    /\ requests = <<>>
    /\ received = <<>>
    /\ diag = <<>>
    /\ result = None

Config == <<indices, size, t>>
SinkVars == <<output, flushed, closed>>
Locals == <<initial_pit, initial_documents, documents, next_pit, next_search_after>>

\* DropLocals with the token and the cursor of the loop kept
DropLocalsKeepsCursor ==
    /\ initial_pit' = <<>>
    /\ initial_documents' = <<>>
    /\ documents' = <<>>
    /\ response' = <<>>
    /\ next_pit' = next_pit
    /\ next_search_after' = next_search_after

\* the locals of one iteration of the for loop go out of scope
DropLocals ==
    /\ initial_pit' = <<>>
    /\ initial_documents' = <<>>
    /\ documents' = <<>>
    /\ response' = <<>>
    /\ next_pit' = <<>>
    /\ next_search_after' = NoneU64

\* the errors execute returns: of the transport, of json() and of the sink
Errors == {"Err(transport)", "Err(json)", "Err(io)"}

\* `?` on an Err: execute returns the error
Fatal(error) ==
    /\ pc' = "done"
    /\ result' = error
    /\ i' = i
    /\ DropLocals

\* NextIndex leaving the for loop
NextIndexLeavesLoop ==
    /\ pc' = "for"
    /\ i' = Len(indices) + 1
    /\ result' = result
    /\ DropLocals

\* NextIndex that never gives control back to the for loop
NextIndexHangs ==
    /\ pc' = "hung"
    /\ i' = i
    /\ result' = result
    /\ DropLocals

\* NextIndex taking the same index again
NextIndexStays ==
    /\ pc' = "for"
    /\ i' = i
    /\ result' = result
    /\ DropLocals

\* continue, or break out of the inner loop: the for loop takes the next index
NextIndex ==
    /\ pc' = "for"
    /\ i' = i + 1
    /\ result' = result
    /\ DropLocals

Eprintln(kind) == diag' = Append(diag, [kind |-> kind, index |-> index])

\* .send(): the request leaves
Send(req, to) ==
    /\ requests' = Append(requests, req)
    /\ pc' = to
    /\ UNCHANGED <<Config, Generator, i, Locals, response, SinkVars, received, diag, result>>

\* .await: the response arrives, or the transport fails
Await(responses, to) ==
    /\ \E resp \in responses : response' = <<resp>>
    /\ pc' = to
    /\ UNCHANGED <<Config, Generator, i, Locals, SinkVars, requests, received, diag, result>>

\* SendFailed with the Err of send() not looked at
SendFailedIgnored(resp) == FALSE

\* SendFailed taking a non-200 status for an Err as well
SendFailedOnStatus(resp) == ~resp.ok \/ resp.status # 200

\* send().await?: whether `?` returns the error
SendFailed(resp) == ~resp.ok

\* lines 231-235: the open call is sent
OpenPit ==
    /\ pc = "for"
    /\ i <= Len(indices)
    /\ Send(OpenPitRequest(index), "open_sent")

\* line 236: the open call is answered
OpenPitAwait ==
    /\ pc = "open_sent"
    /\ Await(PitResponses, "pit_response")

\* lines 238-254: the answer to the open call is read
PitResponse ==
    /\ pc = "pit_response"
    /\ LET resp == response[1] IN
       IF SendFailed(resp)
          THEN Fatal("Err(transport)") /\ UNCHANGED <<diag, received>>
       ELSE IF PitStatusFailed(resp.status)
          THEN NextIndex /\ Eprintln("Failed to open PIT") /\ received' = received
       ELSE IF DecodePit(resp.body) = "Err"
          THEN Fatal("Err(json)") /\ UNCHANGED <<diag, received>>
       ELSE IF DecodePit(resp.body) = "Error"
          THEN NextIndex /\ Eprintln("Error opening PIT") /\ received' = received
       ELSE /\ initial_pit' = <<resp.body.id[1]>>
            /\ received' = Append(received, Decoded("open", resp.body.id[1], <<>>))
            /\ response' = <<>>
            /\ pc' = "initial_search"
            /\ UNCHANGED <<i, initial_documents, documents, next_pit,
                           next_search_after, diag, result>>
    /\ UNCHANGED <<Config, Generator, SinkVars, requests>>

\* lines 256-264: the first search of the index is sent
InitialSearch ==
    /\ pc = "initial_search"
    /\ Send(InitialSearchRequest(index, initial_pit[1]), "initial_search_sent")

\* line 265: the first search is answered
InitialSearchAwait ==
    /\ pc = "initial_search_sent"
    /\ Await(SearchResponses, "initial_documents")

\* lines 267-286: the first page is read and written, the cursor and token are taken
InitialDocuments ==
    /\ pc = "initial_documents"
    /\ LET body == response[1].body IN
       IF SendFailed(response[1])
          THEN Fatal("Err(transport)") /\ UNCHANGED <<diag, received, SinkVars>>
       ELSE IF DecodeSearch(body) = "Err"
          THEN Fatal("Err(json)") /\ UNCHANGED <<diag, received, SinkVars>>
       ELSE IF DecodeSearch(body) = "Error"
          THEN /\ NextIndex
               /\ Eprintln("Error during initial search")
               /\ UNCHANGED <<received, SinkVars>>
       ELSE /\ received' = Append(received, Decoded("search", body.pit_id[1], body.hits))
            /\ \E left \in 0..PersistOps(body.hits) :
                LET s == persist_ndjson(body.hits, index, Sink(output, flushed, left))
                IN  /\ output' = s.out
                    /\ flushed' = s.flushed
                    /\ IF ~s.ok
                          THEN Fatal("Err(io)")
                          ELSE /\ initial_documents' = <<body.hits>>
                               /\ next_pit' = <<NextPit(body)>>
                               /\ next_search_after' = NextSearchAfter(body.hits)
                               /\ response' = <<>>
                               /\ pc' = "loop"
                               /\ UNCHANGED <<i, initial_pit, documents, result>>
            /\ UNCHANGED <<closed, diag>>
    /\ UNCHANGED <<Config, Generator, requests>>

\* lines 289-300: a search of the loop is sent
SearchAfter ==
    /\ pc = "loop"
    /\ Send(SearchAfterRequest(index, next_pit[1], next_search_after), "search_sent")

\* line 301: a search of the loop is answered
SearchAfterAwait ==
    /\ pc = "search_sent"
    /\ Await(SearchResponses, "documents")

\* lines 303-324: a page of the loop is read and written, the cursor and token move
Documents ==
    /\ pc = "documents"
    /\ LET body == response[1].body IN
       IF SendFailed(response[1])
          THEN Fatal("Err(transport)") /\ UNCHANGED <<diag, received, SinkVars>>
       ELSE IF DecodeSearch(body) = "Err"
          THEN Fatal("Err(json)") /\ UNCHANGED <<diag, received, SinkVars>>
       ELSE IF DecodeSearch(body) = "Error"
          THEN /\ NextIndex
               /\ Eprintln("Error during search after")
               /\ UNCHANGED <<received, SinkVars>>
       ELSE /\ received' = Append(received, Decoded("search", body.pit_id[1], body.hits))
            /\ IF PageEndsLoop(body.hits)
                  THEN NextIndex /\ UNCHANGED <<SinkVars>>
                  ELSE \E left \in 0..PersistOps(body.hits) :
                    LET s == persist_ndjson(body.hits, index,
                                            Sink(output, flushed, left))
                    IN  /\ output' = s.out
                        /\ flushed' = s.flushed
                        /\ closed' = closed
                        /\ IF ~s.ok
                              THEN Fatal("Err(io)")
                              ELSE /\ next_pit' = <<NextPit(body)>>
                                   /\ next_search_after' = NextSearchAfter(body.hits)
                                   /\ documents' = <<>>
                                   /\ response' = <<>>
                                   /\ pc' = "loop"
                                   /\ UNCHANGED <<i, initial_pit, initial_documents,
                                                  result>>
            /\ diag' = diag
    /\ UNCHANGED <<Config, Generator, requests>>

\* Finish without the shutdown of line 328
FinishWithoutShutdown ==
    /\ pc = "for"
    /\ i > Len(indices)
    /\ \E left \in 0..1 :
        LET s == Flush(Sink(output, flushed, left))
        IN  /\ flushed' = s.flushed
            /\ closed' = FALSE
            /\ result' = IF left = 1 THEN "Ok" ELSE "Err(io)"
    /\ pc' = "done"
    /\ UNCHANGED <<Config, Generator, i, Locals, response, output, requests, received, diag>>

\* lines 327-332: the sink is flushed and shut down, execute returns Ok
Finish ==
    /\ pc = "for"
    /\ i > Len(indices)
    /\ \E left \in 0..2 :
        LET s == Flush(Sink(output, flushed, left))
        IN  /\ flushed' = s.flushed
            /\ closed' = (left = 2)
            /\ result' = IF left = 2 THEN "Ok" ELSE "Err(io)"
    /\ pc' = "done"
    /\ UNCHANGED <<Config, Generator, i, Locals, response, output, requests, received, diag>>

Next ==
    \/ OpenPit
    \/ OpenPitAwait
    \/ PitResponse
    \/ InitialSearch
    \/ InitialSearchAwait
    \/ InitialDocuments
    \/ SearchAfter
    \/ SearchAfterAwait
    \/ Documents
    \/ Finish

Spec == Init /\ [][Next]_vars

\* execute takes its next step and the backend answers every request
SpecFair == Spec /\ WF_vars(Next)

(***************************************************************************)
(* The export against a backend that answers every search that carries no  *)
(* cursor with the same page, a page whose last document has an empty sort *)
(* array.  A turn of the loop then sends the request of the turn before    *)
(* and writes the lines of the turn before: the logs and the sink of this  *)
(* specification hold what is repeated once, so that a run that repeats    *)
(* itself is a cycle of states.                                            *)
(***************************************************************************)
\* the page of the first documents of the backend, the last without sort key
CursorlessPage ==
    LET k == Min(size, MaxDocs)
    IN  [j \in 1..k |-> [_source |-> DocNames[j],
                         sort |-> IF j = k THEN <<>> ELSE <<j>>]]

\* the answer to a search without cursor: the same page, the token unchanged
CursorlessResponses ==
    {Response(200, Body(<<>>, requests[Len(requests)].pit, TRUE, CursorlessPage, FALSE))}

\* a log that holds an entry repeated in a row once
Logged(log, x) == IF log # <<>> /\ log[Len(log)] = x THEN log ELSE Append(log, x)

\* line 265: the first search is answered
CursorlessInitialAwait ==
    /\ pc = "initial_search_sent"
    /\ Await(CursorlessResponses, "initial_documents")

\* lines 289-300: a search of the loop is sent
CursorlessSearchAfter ==
    /\ pc = "loop"
    /\ requests' = Logged(requests,
                          SearchAfterRequest(index, next_pit[1], next_search_after))
    /\ pc' = "search_sent"
    /\ UNCHANGED <<Config, Generator, i, Locals, response, SinkVars, received, diag, result>>

\* line 301: a search of the loop is answered
CursorlessSearchAwait ==
    /\ pc = "search_sent"
    /\ ~requests[Len(requests)].has_search_after \/ requests[Len(requests)].search_after = <<>>
    /\ Await(CursorlessResponses, "documents")

\* lines 303-324: a page of the loop is read and written, the cursor and token move
CursorlessDocuments ==
    /\ pc = "documents"
    /\ LET body == response[1].body IN
       IF SendFailed(response[1])
          THEN Fatal("Err(transport)") /\ UNCHANGED <<diag, received, SinkVars>>
       ELSE IF DecodeSearch(body) = "Err"
          THEN Fatal("Err(json)") /\ UNCHANGED <<diag, received, SinkVars>>
       ELSE IF DecodeSearch(body) = "Error"
          THEN /\ NextIndex
               /\ Eprintln("Error during search after")
               /\ UNCHANGED <<received, SinkVars>>
       ELSE /\ received' = Logged(received, Decoded("search", body.pit_id[1], body.hits))
            /\ IF PageEndsLoop(body.hits)
                  THEN NextIndex /\ UNCHANGED <<SinkVars>>
                  ELSE \E left \in 0..PersistOps(body.hits) :
                    LET s == persist_ndjson(body.hits, index,
                                            Sink(output, flushed, left))
                    IN  /\ output' = IF received' = received THEN output ELSE s.out
                        /\ flushed' = IF received' = received THEN flushed ELSE s.flushed
                        /\ closed' = closed
                        /\ IF ~s.ok
                              THEN Fatal("Err(io)")
                              ELSE /\ next_pit' = <<NextPit(body)>>
                                   /\ next_search_after' = NextSearchAfter(body.hits)
                                   /\ documents' = <<>>
                                   /\ response' = <<>>
                                   /\ pc' = "loop"
                                   /\ UNCHANGED <<i, initial_pit, initial_documents,
                                                  result>>
            /\ diag' = diag
    /\ UNCHANGED <<Config, Generator, requests>>

NextLoop ==
    \/ OpenPit
    \/ OpenPitAwait
    \/ PitResponse
    \/ InitialSearch
    \/ CursorlessInitialAwait
    \/ InitialDocuments
    \/ CursorlessSearchAfter
    \/ CursorlessSearchAwait
    \/ CursorlessDocuments
    \/ Finish

\* execute takes its next step and the backend answers every request
SpecLoop == Init /\ [][NextLoop]_vars /\ WF_vars(NextLoop)

(***************************************************************************)
(* The code generator: PathParameter::pattern_params                       *)
(* (generator/src/path_parameter.rs) and Endpoint::build_path_parameters   *)
(* (generator/src/endpoint.rs).  A string the generator formats is the     *)
(* tuple of its parts: a match pattern is its entries and whether they are *)
(* put in parentheses, a URL path is the set of its placeholders.          *)
(***************************************************************************)
\* longest endpoints_params of a PathParameter
MaxParams == 2
\* largest number of URLs of an endpoint
MaxUrls == 2
\* largest number of path parameters the request of an endpoint declares
MaxFields == 2

\* names of parameters, and the placeholders of URL templates
ParamNames == {"index", "id", "ty"}
PlaceholderNames == {"index", "id", "type"}

SeqsUpTo(S, n) == UNION {[1..k -> S] : k \in 0..n}
RangeOf(f) == {f[k] : k \in DOMAIN f}

\* Dump::execute is not called
NoDump ==
    /\ indices = <<>>
    /\ size = MaxSize
    /\ t = DefaultTimeout
    /\ pc = "not called"
    /\ i = 1
    /\ initial_pit = <<>>
    /\ initial_documents = <<>>
    /\ documents = <<>>
    /\ response = <<>>
    /\ next_pit = <<>>
    /\ next_search_after = NoneU64
    /\ output = <<>>
    /\ flushed = 0
    /\ closed = FALSE
    /\ requests = <<>>
    /\ received = <<>>
    /\ diag = <<>>
    /\ result = None

\* PathParameter::new; path is the set of the placeholders of the URL
PathParameter(path, endpoints_params, mandatory, optional) ==
    [path |-> path, endpoints_params |-> endpoints_params,
     mandatory_parameters |-> mandatory, optional_parameters |-> optional]

\* the entries of a match pattern: param, format!("Some({param})"), "None"
Bare(param) == <<param>>
SomeOf(param) == <<"Some", param>>
NoneEntry == <<"None">>

\* CodeParams with the mandatory parameters inserted last
CodeParamsMandatoryLast(p) ==
    [param \in p.mandatory_parameters \cup p.optional_parameters |->
        IF param \in p.mandatory_parameters THEN Bare(param) ELSE SomeOf(param)]

\* code_params: the mandatory parameters are inserted first, the optional
\* parameters after them, over an entry of the same name
CodeParams(p) ==
    [param \in p.mandatory_parameters \cup p.optional_parameters |->
        IF param \in p.optional_parameters THEN SomeOf(param) ELSE Bare(param)]

\* params: one entry per element of endpoints_params
Params(p) ==
    [k \in 1..Len(p.endpoints_params) |->
        IF p.endpoints_params[k] \in DOMAIN CodeParams(p)
            THEN CodeParams(p)[p.endpoints_params[k]]
            ELSE NoneEntry]

\* match params.len() { 1 => params.join(""), _ => format!("({})", params.join(",")) }
pattern_params(p) ==
    [paren |-> Len(Params(p)) # 1, entries |-> Params(p)]

InitPattern ==
    /\ NoDump
    /\ path_param \in
        {<<PathParameter(m \cup o, ep, m, o)>> :
            ep \in SeqsUpTo(ParamNames, MaxParams),
            m \in SUBSET ParamNames, o \in SUBSET ParamNames}
    /\ pattern = <<>>
    /\ urls = <<>>
    /\ path_parameters = <<>>
    /\ optional_parameters = {}
    /\ path_params = <<>>
    /\ url = 1
    /\ returned = FALSE

\* path_param.pattern_params()
PatternParams ==
    /\ path_param # <<>>
    /\ pattern = <<>>
    /\ pattern' = <<pattern_params(path_param[1])>>
    /\ UNCHANGED <<DumpVars, path_param, urls, path_parameters, optional_parameters,
                   path_params, url, returned>>

NextPattern == PatternParams

SpecPattern == InitPattern /\ [][NextPattern]_vars

\* Field::sanitize_field_name, and the renaming of the placeholders of a path
sanitize_field_name(name) == IF name = "type" THEN "ty" ELSE name

\* Field::new(name, "", required, "String", None)
Field(name, required) == [name |-> sanitize_field_name(name), required |-> required]

\* a URL template: the placeholders of its path, and whether it is a path
\* with "_aliases" of indices.put_alias or indices.delete_alias
Urls == [placeholders : SUBSET PlaceholderNames, aliases : BOOLEAN]

\* the sequences of the elements of a set, each once
Orders(S) == {f \in [1..Cardinality(S) -> S] : RangeOf(f) = S}

\* populate_path_parameters: the declared path parameters, longest name first
DeclaredFields ==
    {f \in SeqsUpTo({Field(n, r) : n \in PlaceholderNames, r \in BOOLEAN}, MaxFields) :
        /\ \A k, l \in DOMAIN f : k # l => f[k].name # f[l].name
        /\ \A k, l \in DOMAIN f : (k < l /\ f[l].name = "index") => f[k].name = "index"}

\* collect_optional_parameters
collect_optional_parameters(fields) ==
    {fields[k].name : k \in {l \in DOMAIN fields : ~fields[l].required}}

InitBuild ==
    /\ NoDump
    /\ path_param = <<>>
    /\ pattern = <<>>
    /\ urls \in SeqsUpTo(Urls, MaxUrls) \ {<<>>}
    /\ path_parameters \in DeclaredFields
    /\ optional_parameters = collect_optional_parameters(path_parameters)
    /\ path_params = <<>>
    /\ url = 1
    /\ returned = FALSE

\* lines 465-507: the body of the loop over self.e.urls
BuildUrl ==
    /\ ~returned
    /\ url <= Len(urls)
    /\ url' = url + 1
    /\ IF urls[url].aliases
          THEN UNCHANGED <<path_parameters, path_params>>
          ELSE LET params == {sanitize_field_name(f) : f \in urls[url].placeholders}
                   endpoints_params ==
                        [k \in 1..Len(path_parameters) |-> path_parameters[k].name]
                   tmp_params == RangeOf(endpoints_params)
               IN  /\ \E order \in Orders(params \ tmp_params) :
                        path_parameters' = path_parameters \o
                            [k \in 1..Len(order) |-> Field(order[k], TRUE)]
                   /\ path_params' = Append(path_params,
                        PathParameter(params, endpoints_params,
                                      params \ optional_parameters,
                                      optional_parameters \cap params))
    /\ UNCHANGED <<DumpVars, path_param, pattern, urls, optional_parameters, returned>>

\* line 509: build_path_parameters returns path_params
ReturnPathParams ==
    /\ ~returned
    /\ url > Len(urls)
    /\ returned' = TRUE
    /\ UNCHANGED <<DumpVars, path_param, pattern, urls, path_parameters,
                   optional_parameters, path_params, url>>

NextBuild ==
    \/ BuildUrl
    \/ ReturnPathParams

SpecBuild == InitBuild /\ [][NextBuild]_vars

(***************************************************************************)
(* Properties.                                                             *)
(***************************************************************************)
Last(s) == s[Len(s)]

\* the pages decoded for the j-th index, and the searches issued for it
PagesOfIndex(j) == SelectSeq(received, LAMBDA e : e.kind = "search" /\ e.i = j)
SearchesOf(j) == SelectSeq(requests, LAMBDA r : r.kind = "search" /\ r.index = indices[j])

RECURSIVE EncodedPage(_, _)
\* two newline-terminated lines per document, in page order
EncodedPage(name, hits) ==
    IF hits = <<>> THEN <<>>
    ELSE <<<<"index", "_index", name>>, <<"\n">>,
           <<"_source", Head(hits)._source>>, <<"\n">>>> \o EncodedPage(name, Tail(hits))

RECURSIVE Encoded(_)
\* the pages of a log, encoded one after the other
Encoded(log) ==
    IF log = <<>> THEN <<>>
    ELSE EncodedPage(indices[Head(log).i], Head(log).hits) \o Encoded(Tail(log))

\* the document bodies of the source lines of the sink, in the order written
SourcesWritten ==
    LET lines == SelectSeq(output, LAMBDA c : Len(c) = 2)
    IN  [k \in 1..Len(lines) |-> lines[k][2]]

NumLines(out) == Len(SelectSeq(out, LAMBDA c : c = <<"\n">>))
NumActionLines(out, name) == Len(SelectSeq(out, LAMBDA c : c = <<"index", "_index", name>>))

RECURSIVE SumDocs(_)
SumDocs(pages) == IF pages = <<>> THEN 0 ELSE Len(Head(pages).hits) + SumDocs(Tail(pages))

\* C1: when a run ends without a fatal error, the sink holds exactly the
\* encoded documents of the pages that were fetched, in the order they were
\* fetched, the indices in input order, every document once.
C1_OutputIsConcatenation ==
    result = "Ok" =>
        /\ output = Encoded(received)
        /\ \A m, n \in DOMAIN received : m < n => received[m].i <= received[n].i
        /\ SourcesWritten = SubSeq(DocNames, 1, DocsIn(received))

C1_Witness ==
    /\ result = "Ok"
    /\ \E m, n \in DOMAIN received :
        /\ received[m].i = 1 /\ received[m].hits # <<>>
        /\ received[n].i = 2 /\ received[n].hits # <<>>

\* C2: token rotation.  The first search of an index carries the token of
\* that index's open call, and every later search carries the pit_id of the
\* page decoded just before it: a search never carries an older token.
C2_TokenRotation ==
    /\ pc \in {"initial_search_sent", "search_sent"} =>
        /\ Last(requests).kind = "search"
        /\ Last(requests).pit = <<Last(received).pit>>
        /\ Last(requests).index = indices[Last(received).i]
        /\ Last(received).kind = IF pc = "initial_search_sent" THEN "open" ELSE "search"
    /\ \A k \in DOMAIN requests :
        requests[k].kind = "search" =>
            /\ k > 1
            /\ requests[k].pit = <<k - 1>>
            /\ requests[k - 1].index = requests[k].index

C2_Witness ==
    /\ pc = "search_sent"
    /\ Len(SearchesOf(i)) >= 3

\* C3: cursor propagation.  After a non-empty page whose last document has a
\* non-empty sort key s, the next search of the index carries search_after =
\* [first element of s], taken from the last document of that page.
C3_CursorPropagation ==
    (/\ pc = "search_sent"
     /\ Last(received).hits # <<>>
     /\ Last(Last(received).hits).sort # <<>>) =>
        /\ Last(requests).kind = "search"
        /\ Last(requests).index = indices[Last(received).i]
        /\ Last(requests).has_search_after
        /\ Last(requests).search_after = <<Last(Last(received).hits).sort[1]>>

C3_Witness ==
    /\ pc = "search_sent"
    /\ Len(Last(received).hits) = 2
    /\ Len(Last(Last(received).hits).sort) = 2
    /\ Last(received).hits[1].sort # <<>>
    /\ Last(requests).search_after = <<Last(Last(received).hits).sort[1]>>

\* C4: an empty page ends the loop of its index at once: no search is issued
\* after it for that index, and an index whose first page is empty is
\* searched exactly once.
C4_EmptyPageEndsLoop ==
    /\ ~(/\ pc = "search_sent"
         /\ Last(received).kind = "search"
         /\ Last(received).hits = <<>>)
    /\ \A j \in 1..Len(indices) :
        (PagesOfIndex(j) # <<>> /\ PagesOfIndex(j)[1].hits = <<>>) =>
            Len(SearchesOf(j)) = 1

\* C5: n >= 1 non-empty pages, each ending in a document with a sort key,
\* followed by an empty page: n + 1 searches with the cursors none,
\* last(P1), ..., last(Pn), and two lines per document; a page shorter than
\* size does not end the loop.
C5_Hypothesis(P) ==
    /\ Len(P) >= 2
    /\ Last(P).hits = <<>>
    /\ \A m \in 1..(Len(P) - 1) : P[m].hits # <<>> /\ Last(P[m].hits).sort # <<>>

C5_PagesThenEmpty ==
    \A j \in 1..Len(indices) :
        LET P == PagesOfIndex(j)
            R == SearchesOf(j)
        IN  C5_Hypothesis(P) =>
                /\ Len(R) = Len(P)
                /\ ~R[1].has_search_after
                /\ \A m \in 2..Len(R) :
                    /\ R[m].has_search_after
                    /\ R[m].search_after = <<Last(P[m - 1].hits).sort[1]>>
                /\ NumActionLines(output, indices[j]) = SumDocs(P)
                /\ Len(indices) = 1 => NumLines(output) = 2 * SumDocs(P)

C5_Witness ==
    /\ Len(indices) = 1
    /\ C5_Hypothesis(PagesOfIndex(1))
    /\ Len(PagesOfIndex(1)) = 3
    /\ Len(PagesOfIndex(1)[1].hits) < size
    /\ NumLines(output) = 4

\* what a step that gives up the current index and takes the next one does
SkipsIndex ==
    /\ pc' = "for"
    /\ i' = i + 1
    /\ result' = result
    /\ requests' = requests
    /\ received' = received
    /\ <<output, flushed, closed>>' = <<output, flushed, closed>>
    /\ <<initial_pit, next_pit, next_search_after>>' = <<<<>>, <<>>, NoneU64>>
    /\ Len(diag') = Len(diag) + 1
    /\ Last(diag').index = indices[i]

\* what a step that aborts the run does
AbortsRun ==
    /\ pc' = "done"
    /\ result' \in Errors
    /\ requests' = requests
    /\ <<output, flushed, closed>>' = <<output, flushed, closed>>
    /\ diag' = diag

\* no search was issued and no line was written for an index whose open
\* call was reported as failed
NoTraceOfFailedOpen(kind) ==
    \A k \in DOMAIN diag :
        diag[k].kind = kind =>
            /\ \A r \in DOMAIN requests :
                requests[r].kind = "search" => requests[r].index # diag[k].index
            /\ NumActionLines(output, diag[k].index) = 0

ReadsSearch == pc \in {"initial_documents", "documents"}

\* C6: a non-200 status of the open call is reported with the name of the
\* index; no search is issued and nothing is written for that index, and
\* the run goes on with the next index from the state a first index starts in.
C6_OpenStatusSkipsIndex ==
    /\ [](NoTraceOfFailedOpen("Failed to open PIT"))
    /\ [][(pc = "pit_response" /\ response[1].ok /\ response[1].status # 200)
            => (SkipsIndex /\ Last(diag').kind = "Failed to open PIT")]_vars

C6_Witness ==
    /\ result = "Ok"
    /\ Len(indices) = 2
    /\ diag = <<[kind |-> "Failed to open PIT", index |-> indices[1]]>>
    /\ output = Encoded(received)
    /\ NumActionLines(output, indices[2]) = 2

\* C7: a 200 answer to the open call whose body is an error envelope and
\* holds no token makes the index fail like a non-200 status: no search, no
\* output, the next index is taken.
C7_OpenErrorEnvelopeSkipsIndex ==
    /\ [](NoTraceOfFailedOpen("Error opening PIT"))
    /\ [][(/\ pc = "pit_response"
           /\ response[1].ok
           /\ response[1].status = 200
           /\ response[1].body.id = <<>>
           /\ response[1].body.error)
            => (SkipsIndex /\ Last(diag').kind = "Error opening PIT")]_vars

C7_Witness ==
    /\ result = "Ok"
    /\ Len(indices) = 2
    /\ diag = <<[kind |-> "Error opening PIT", index |-> indices[1]]>>
    /\ NumActionLines(output, indices[2]) = 2

\* C8: a transport failure of the open call or of a search is fatal: execute
\* returns the error, and no request is issued and nothing is written to the
\* sink after it.
C8_TransportFailureIsFatal ==
    /\ [][(pc \in {"pit_response", "initial_documents", "documents"}
             /\ ~response[1].ok) => AbortsRun]_vars
    /\ [][pc = "done" => (requests' = requests /\ output' = output /\ pc' = "done")]_vars

C8_Witness ==
    /\ pc = "documents"
    /\ ~response[1].ok
    /\ i < Len(indices)
    /\ output # <<>>

\* C9: an error envelope as the answer to a search, the first or a later
\* one, ends the pagination of that index only: the sink keeps what was
\* written, no search follows for the index, the index is named in a
\* diagnostic and the next index is taken.
C9_SearchErrorSkipsIndex ==
    [][(/\ ReadsSearch
        /\ response[1].ok
        /\ ~(response[1].body.pit_id # <<>> /\ response[1].body.has_hits)
        /\ response[1].body.error) => SkipsIndex]_vars

C9_Witness ==
    /\ result = "Ok"
    /\ Len(indices) = 2
    /\ diag = <<[kind |-> "Error during search after", index |-> indices[1]]>>
    /\ NumActionLines(output, indices[1]) = 1
    /\ NumActionLines(output, indices[2]) = 1

\* a body that fits neither the page shape nor the error envelope
NeitherShape(body) == ~(body.pit_id # <<>> /\ body.has_hits) /\ ~body.error

\* C10 as stated: a search body that fits neither shape makes the index fail
\* and the run goes on with the next index.
C10_MalformedSkipsIndex ==
    [][(ReadsSearch /\ response[1].ok /\ NeitherShape(response[1].body))
        => (pc' = "for" /\ i' = i + 1 /\ result' = result)]_vars

\* C10, amended: a search body that fits neither shape is fatal: execute
\* returns the error, nothing more is requested, written or reported, and the
\* remaining indices are not processed.
C10_MalformedIsFatal ==
    [][(ReadsSearch /\ response[1].ok /\ NeitherShape(response[1].body))
        => AbortsRun]_vars

C10_Witness ==
    /\ pc = "documents"
    /\ response[1].ok
    /\ NeitherShape(response[1].body)
    /\ i < Len(indices)
    /\ output # <<>>

OpensOf(j) == SelectSeq(requests, LAMBDA r : r.kind = "open" /\ r.index = indices[j])

\* C11: execute returns an error only for a failure of the transport, of
\* json() or of the sink; a run without one returns Ok after the open call
\* of every index of the list, whatever number of indices failed.
C11_IndexFailuresReturnOk ==
    /\ [](pc = "done" =>
            \/ result \in Errors /\ (i <= Len(indices) \/ result = "Err(io)")
            \/ /\ result = "Ok"
               /\ i = Len(indices) + 1
               /\ \A j \in 1..Len(indices) : Len(OpensOf(j)) = 1)
    /\ [][diag' # diag => result' = None /\ pc' = "for" /\ i' = i + 1]_vars
    /\ [][result' \in Errors =>
            \/ pc \in {"pit_response", "initial_documents", "documents"}
               /\ (SendFailed(response[1]) <=> result' = "Err(transport)")
            \/ pc = "for" /\ i > Len(indices) /\ result' = "Err(io)"]_vars

C11_Witness ==
    /\ result = "Ok"
    /\ Len(indices) = 2
    /\ Len(diag) = 2
    /\ diag[1].index = indices[1]
    /\ diag[2].index = indices[2]
    /\ diag[1].kind = "Failed to open PIT"
    /\ diag[2].kind = "Error during search after"

\* the 4N chunks persist_ndjson appends for a page of N documents: line 2k-1
\* is the action line of the index, line 2k the source of the k-th document
PageLines(name, hits) ==
    [c \in 1..(4 * Len(hits)) |->
        IF c % 4 = 1 THEN <<"index", "_index", name>>
        ELSE IF c % 4 = 3 THEN <<"_source", hits[(c + 1) \div 4]._source>>
        ELSE <<"\n">>]

\* no blank line: no newline at the start of the sink or after a newline
NoBlankLine(out) ==
    \A c \in DOMAIN out :
        out[c] = <<"\n">> => c > 1 /\ out[c - 1] # <<"\n">>

\* C12: persist_ndjson on a page of N documents of index X appends 2N
\* newline-terminated lines, the action line of X and the source of the
\* k-th document alternating in page order, nothing for N = 0, no blank
\* line, and flushes the sink.
C12_TwoLinesPerDocument ==
    /\ [](NoBlankLine(output))
    /\ [][(ReadsSearch /\ pc' = "loop") =>
            /\ Last(received').kind = "search"
            /\ output' = output \o PageLines(indices[i], Last(received').hits)
            /\ NumLines(output') = NumLines(output) + 2 * Len(Last(received').hits)
            /\ flushed' = Len(output')]_vars

C12_Witness ==
    /\ pc = "loop"
    /\ Len(Last(received).hits) = 2
    /\ Len(output) = 8
    /\ \E k \in DOMAIN received : received[k].kind = "search" /\ received[k].hits = <<>>

\* C13: a search issued while no cursor is set carries no search_after
\* field, and a search_after that is sent has exactly one element.
C13_SearchAfterOmittedOrSingle ==
    /\ \A k \in DOMAIN requests :
        (requests[k].kind = "search" /\ requests[k].has_search_after) =>
            Len(requests[k].search_after) = 1
    /\ (pc = "search_sent" /\ ~next_search_after.some) =>
            ~Last(requests).has_search_after

\* C14: every request, the open call and each search, carries the timeout of
\* execute: the caller's, or 60 seconds.
C14_EveryRequestHasTimeout ==
    \A k \in DOMAIN requests : requests[k].timeout = <<t>>

Sent == {"open_sent", "initial_search_sent", "search_sent"}
Ready == {"for", "initial_search", "loop"}

\* C15: requests and writes alternate.  A request leaves only while none is
\* outstanding and no response is unread, a response arrives only for the
\* one request outstanding, nothing is written while a request is
\* outstanding, and when a search leaves every document of every page decoded
\* so far is in the sink and the sink is flushed.
C15_RequestsAndWritesAlternate ==
    /\ [][requests' # requests =>
            /\ pc \in Ready /\ pc' \in Sent
            /\ response = <<>>
            /\ requests' = Append(requests, Last(requests'))
            /\ output' = output
            /\ output = Encoded(received)
            /\ flushed = Len(output)]_vars
    /\ [][response' # <<>> =>
            pc \in Sent /\ requests' = requests /\ response = <<>>
            /\ output' = output]_vars
    /\ [][output' # output => pc \in {"initial_documents", "documents"}
                               /\ pc' \notin Sent /\ requests' = requests]_vars

C15_Witness ==
    /\ pc = "search_sent"
    /\ Len(SearchesOf(i)) = 3
    /\ Len(output) = 8
    /\ flushed = 8

\* the position of an index name in the list
Position(name) == CHOOSE j \in 1..Len(indices) : indices[j] = name

\* the j-th index has reached a terminal state: its loop ended on an empty
\* page or with a diagnostic
Terminal(j) ==
    \/ \E d \in DOMAIN diag : diag[d].index = indices[j]
    \/ j < i /\ PagesOfIndex(j) # <<>> /\ Last(PagesOfIndex(j)).hits = <<>>

\* C16: the indices are processed one after the other in input order: every
\* request names the index the for loop is at, the indices before it are
\* terminal, and every index reached has exactly one open call.
C16_IndicesInInputOrder ==
    /\ \A k, l \in DOMAIN requests :
        k < l => Position(requests[k].index) <= Position(requests[l].index)
    /\ \A k \in DOMAIN requests :
        /\ Position(requests[k].index) <= i
        /\ \A j \in 1..(Position(requests[k].index) - 1) : Terminal(j)
    /\ \A j \in 1..Len(indices) :
        Len(OpensOf(j)) = IF j < i \/ (j = i /\ pc # "for") THEN 1 ELSE 0
    /\ \A j \in 1..Len(indices) :
        SearchesOf(j) # <<>> => Len(OpensOf(j)) = 1

C16_Witness ==
    /\ i = 2
    /\ pc = "search_sent"
    /\ Len(SearchesOf(1)) = 2
    /\ Len(SearchesOf(2)) = 2
    /\ Len(OpensOf(1)) = 1
    /\ Len(OpensOf(2)) = 1

\* the state of the j-th index in the state machine of the export loop;
\* a fatal error leaves the machine
State(j) ==
    IF \E d \in DOMAIN diag : diag[d].index = indices[j] THEN "IndexFailed"
    ELSE IF j < i THEN "Done"
    ELSE IF j > i THEN "Idle"
    ELSE IF pc = "done" THEN "Aborted"
    ELSE IF pc \in {"for", "open_sent", "pit_response"} THEN "Idle"
    ELSE IF pc = "initial_search" THEN "SnapshotOpened"
    ELSE "Fetching"

Transitions ==
    {<<"Idle", "SnapshotOpened">>, <<"Idle", "IndexFailed">>,
     <<"SnapshotOpened", "Fetching">>, <<"Fetching", "Fetching">>,
     <<"Fetching", "Done">>, <<"Fetching", "IndexFailed">>}

TerminalStates == {"Done", "IndexFailed"}

\* what the run has done for the j-th index: its requests and its lines
TraceOf(j) ==
    <<Len(OpensOf(j)), Len(SearchesOf(j)), NumActionLines(output, indices[j])>>

\* C17: the state of an index changes only along Idle -> SnapshotOpened,
\* Idle -> IndexFailed, SnapshotOpened -> Fetching, Fetching -> Done and
\* Fetching -> IndexFailed (or leaves the machine on a fatal error); Done and
\* IndexFailed are terminal, no request is sent and no line written for an
\* index in either, and on entering either the for loop takes the next index.
C17_PerIndexStateMachine ==
    [][\A j \in 1..Len(indices) :
        /\ State(j)' # State(j) =>
            \/ <<State(j), State(j)'>> \in Transitions
            \/ State(j)' = "Aborted" /\ result' \in Errors
                /\ State(j) \in {"Idle", "Fetching"}
        /\ State(j) \in TerminalStates =>
            State(j)' = State(j) /\ TraceOf(j)' = TraceOf(j)
        /\ (State(j) \notin TerminalStates /\ State(j)' \in TerminalStates) =>
            i = j /\ i' = j + 1 /\ pc' = "for"
        /\ TraceOf(j)' # TraceOf(j) => i = j /\ State(j)' \in {"Idle", "Fetching", "Aborted"}
      ]_vars

C17_Witness ==
    /\ result = "Ok"
    /\ Len(indices) = 2
    /\ State(1) = "Done"
    /\ State(2) = "IndexFailed"
    /\ Len(SearchesOf(1)) = 3
    /\ Len(SearchesOf(2)) = 2

\* C18: after a non-empty page whose last document has an empty sort array
\* no cursor is set, and a diagnostic for the index has been emitted by the
\* time the next request leaves.
C18_AnomalyDiagnosed ==
    (/\ pc = "search_sent"
     /\ Last(received).hits # <<>>
     /\ Last(Last(received).hits).sort = <<>>) =>
        /\ ~next_search_after.some
        /\ \E d \in DOMAIN diag : diag[d].index = indices[i]

\* C19: against the backend that answers every search without cursor with
\* the same page, an index that has entered its loop leaves it: the loop
\* ends (Done or IndexFailed) or the run returns.
C19_CursorlessLoopEnds == (pc = "loop") ~> (pc \in {"for", "done"})

\* the pages whose documents execute holds: the first page of the index, the
\* page of the loop, and the page of a response that has arrived
HeldPages ==
    (IF initial_documents # <<>> /\ initial_documents[1] # <<>> THEN 1 ELSE 0)
    + (IF documents # <<>> /\ documents[1] # <<>> THEN 1 ELSE 0)
    + (IF response # <<>> /\ response[1].body.hits # <<>> THEN 1 ELSE 0)

\* C20: execute holds the documents of at most one page, and of none while a
\* search is outstanding: a page is released once it is written.
C20_AtMostOnePageHeld ==
    /\ HeldPages <= 1
    /\ pc \in {"initial_search_sent", "search_sent"} => HeldPages = 0

\* out is old followed by the first chunks of more
PartlyWritten(old, more, out) ==
    \E n \in 0..Len(more) : out = old \o SubSeq(more, 1, n)

\* C21: a failure of the sink is fatal.  A step that persists a page either
\* writes and flushes the whole page and stays in the loop, or returns the
\* io error with a part of the page written; the final flush and shutdown
\* either succeed or return the io error; once the error is returned nothing
\* is requested or written any more.
C21_SinkFailureIsFatal ==
    /\ [][(ReadsSearch /\ received' # received /\ pc' # "for") =>
            LET lines == PageLines(indices[i], Last(received').hits) IN
            \/ /\ pc' = "loop" /\ result' = None
               /\ output' = output \o lines /\ flushed' = Len(output')
            \/ /\ pc' = "done" /\ result' = "Err(io)" /\ i' = i
               /\ PartlyWritten(output, lines, output')
               /\ flushed' = flushed /\ requests' = requests /\ diag' = diag]_vars
    /\ [][(pc = "for" /\ i > Len(indices)) =>
            /\ pc' = "done" /\ requests' = requests /\ output' = output
            /\ result' \in {"Ok", "Err(io)"}
            /\ result' = "Ok" <=> closed']_vars
    /\ [](result = "Err(io)" => pc = "done" /\ ~closed)
    /\ [][result = "Err(io)" => requests' = requests /\ output' = output]_vars

C21_Witness ==
    /\ result = "Err(io)"
    /\ i = 1
    /\ Len(indices) = 2
    /\ Len(output) = 5
    /\ flushed = 4
    /\ Len(OpensOf(2)) = 0

\* C23: against a backend that answers every request and holds finitely many
\* documents, so that every index gets an empty page after finitely many
\* pages, the run returns; when it returns Ok the for loop is past the last
\* index and every index is Done or IndexFailed.
C23_RunCompletes ==
    /\ <>(pc = "done")
    /\ [](pc = "done" => result \in Errors \cup {"Ok"})
    /\ []((pc = "done" /\ result = "Ok") =>
            /\ i = Len(indices) + 1
            /\ \A j \in 1..Len(indices) : State(j) \in TerminalStates)

C23_Witness ==
    /\ pc = "done"
    /\ result = "Ok"
    /\ Len(indices) = 2
    /\ diag = <<>>
    /\ \A j \in 1..2 :
        /\ Len(PagesOfIndex(j)) = 2
        /\ Len(PagesOfIndex(j)[1].hits) = 1
        /\ PagesOfIndex(j)[1].hits[1].sort # <<>>
        /\ PagesOfIndex(j)[2].hits = <<>>

\* a search request without what varies: the token and search_after (index
\* names the iteration the request was sent in, it is not in the payload)
FixedPart(r) ==
    [r EXCEPT !.pit = <<>>, !.has_search_after = FALSE, !.search_after = <<>>,
              !.index = None]

\* C24: every search of a run carries the configured size, the configured
\* keep_alive with a token, the match_all query and the ascending _shard_doc
\* sort: two searches differ in the token and in search_after only.
C24_SearchesCarryConfiguration ==
    /\ \A k \in DOMAIN requests :
        requests[k].kind = "search" =>
            /\ requests[k].size = size
            /\ requests[k].keep_alive = keep_alive
            /\ Len(requests[k].pit) = 1
            /\ requests[k].query = "match_all"
            /\ requests[k].sort = "_shard_doc:asc"
    /\ \A j1, j2 \in 1..Len(indices) :
        \A k1 \in DOMAIN SearchesOf(j1), k2 \in DOMAIN SearchesOf(j2) :
            FixedPart(SearchesOf(j1)[k1]) = FixedPart(SearchesOf(j2)[k2])

C24_Witness ==
    /\ result = "Ok"
    /\ Len(indices) = 2
    /\ Len(SearchesOf(1)) = 3
    /\ Len(SearchesOf(2)) = 2
    /\ SearchesOf(1)[3].search_after # SearchesOf(1)[2].search_after
    /\ SearchesOf(1)[3].pit # SearchesOf(2)[2].pit

\* the token decoded from the open call of the j-th index
TokenOfOpen(j) ==
    SelectSeq(received, LAMBDA e : e.kind = "open" /\ e.i = j)[1].pit

\* C25: nothing of an index reaches the next one but the sink.  The for loop
\* takes every index with no token, no page and no cursor set; the first
\* search of an index carries no search_after and the token of the open call
\* of that index; the sink is only appended to.
C25_NoLeakBetweenIndices ==
    /\ [](pc \in {"for", "open_sent", "pit_response"} =>
            /\ initial_pit = <<>> /\ next_pit = <<>>
            /\ initial_documents = <<>> /\ documents = <<>>
            /\ next_search_after = NoneU64)
    /\ [](\A j \in 1..Len(indices) :
            SearchesOf(j) # <<>> =>
                /\ ~SearchesOf(j)[1].has_search_after
                /\ SearchesOf(j)[1].search_after = <<>>
                /\ SearchesOf(j)[1].pit = <<TokenOfOpen(j)>>)
    /\ [][/\ Len(output') >= Len(output)
          /\ SubSeq(output', 1, Len(output)) = output
          /\ flushed' >= flushed]_vars

C25_Witness ==
    /\ i = 2
    /\ pc = "initial_search_sent"
    /\ diag = <<[kind |-> "Error during search after", index |-> indices[1]]>>
    /\ Len(PagesOfIndex(1)) = 1
    /\ PagesOfIndex(1)[1].hits # <<>>
    /\ Last(PagesOfIndex(1)[1].hits).sort # <<>>
    /\ output # <<>>
    /\ ~Last(requests).has_search_after

\* a body that fits the page shape: a pit_id and hits
FitsPage(body) == body.pit_id # <<>> /\ body.has_hits

\* C26: the page shape is tried first.  A search body with pit_id and hits
\* is read as a page, with or without an error object in it; a diagnostic for
\* an application error is emitted only for a body that does not fit the page
\* shape and fits the error envelope; a body that fits neither is an error
\* of json().
C26_SuccessShapeFirst ==
    [][(ReadsSearch /\ response[1].ok) =>
        LET body == response[1].body IN
        /\ FitsPage(body) =>
            /\ received' = Append(received,
                                  Decoded("search", body.pit_id[1], body.hits))
            /\ diag' = diag
            /\ result' # "Err(json)"
        /\ diag' # diag <=> (~FitsPage(body) /\ body.error)
        /\ result' = "Err(json)" <=> (~FitsPage(body) /\ ~body.error)]_vars

C26_Witness ==
    /\ pc = "documents"
    /\ response[1].ok
    /\ FitsPage(response[1].body)
    /\ response[1].body.error
    /\ Len(PagesOfIndex(i)) = 1
    /\ output # <<>>

\* C27: the sink is shut down once, by the step that follows the last index,
\* after a flush of everything written, and only when execute returns Ok; a
\* run that returns an error never shuts the sink down, and nothing is written
\* or requested after the shutdown.
C27_SinkFinalizedOnce ==
    /\ [](closed <=> result = "Ok")
    /\ [](closed =>
            /\ pc = "done"
            /\ i = Len(indices) + 1
            /\ flushed = Len(output)
            /\ \A j \in 1..Len(indices) : State(j) \in TerminalStates)
    /\ [](result \in Errors => ~closed)
    /\ [][closed' /\ ~closed => pc = "for" /\ i > Len(indices) /\ output' = output]_vars
    /\ [][closed => closed' /\ output' = output /\ flushed' = flushed
                    /\ requests' = requests]_vars

C27_Witness ==
    /\ closed
    /\ Len(indices) = 2
    /\ State(1) = "IndexFailed"
    /\ State(2) = "Done"
    /\ Len(output) = 8

\* the state after a page was read and written: the token and the cursor of
\* the page, the page in the sink, no response left
PageTaken(body) ==
    /\ pc' = "loop"
    /\ i' = i
    /\ result' = None
    /\ next_pit' = body.pit_id
    /\ next_search_after' = NextSearchAfter(body.hits)
    /\ output' = output \o PageLines(indices[i], body.hits)
    /\ flushed' = Len(output')
    /\ response' = <<>>
    /\ diag' = diag

\* C28: what a step does with the answer to a search is fixed by the body of
\* the answer (and by the sink), whatever the status: a page is taken or ends
\* the loop, an error envelope makes the index fail, anything else aborts the
\* run; the status of the open call alone makes the index fail.
C28_SearchStatusIsNotRead ==
    /\ [][(ReadsSearch /\ response[1].ok) =>
            LET body == response[1].body IN
            IF FitsPage(body)
              THEN \/ PageTaken(body) /\ (pc = "documents" => body.hits # <<>>)
                   \/ /\ pc = "documents" /\ body.hits = <<>>
                      /\ pc' = "for" /\ i' = i + 1 /\ output' = output
                      /\ diag' = diag /\ result' = None
                   \/ pc' = "done" /\ result' = "Err(io)"
            ELSE IF body.error THEN SkipsIndex
            ELSE AbortsRun /\ result' = "Err(json)"]_vars
    /\ [][(pc = "pit_response" /\ response[1].ok /\ response[1].status # 200
            /\ response[1].body.id # <<>>) => SkipsIndex]_vars

C28_Witness ==
    /\ pc = "documents"
    /\ response[1].ok
    /\ response[1].status = 500
    /\ FitsPage(response[1].body)
    /\ Len(response[1].body.hits) = 1
    /\ Len(PagesOfIndex(i)) = 1
    /\ Len(output) = 4

\* C29: a 200 answer to the open call whose body holds no token and is no
\* error envelope is fatal: execute returns the error of json() without a
\* diagnostic, and the indices that follow are never opened.
C29_MalformedOpenIsFatal ==
    /\ [][(/\ pc = "pit_response"
           /\ response[1].ok
           /\ response[1].status = 200
           /\ response[1].body.id = <<>>
           /\ ~response[1].body.error)
            => (AbortsRun /\ result' = "Err(json)" /\ i' = i)]_vars
    /\ [](result = "Err(json)" =>
            /\ pc = "done"
            /\ \A j \in 1..Len(indices) : j > i => Len(OpensOf(j)) = 0)

C29_Witness ==
    /\ result = "Err(json)"
    /\ Len(indices) = 2
    /\ i = 1
    /\ Len(requests) = 1
    /\ requests[1].kind = "open"
    /\ diag = <<>>

\* the names a pattern mentions
NamesIn(entries) ==
    {e[Len(e)] : e \in {entries[k] : k \in DOMAIN entries} \ {NoneEntry}}

\* what C22 says of the pattern apart from its entries: one entry per element
\* of endpoints_params, parentheses unless there is exactly one entry, and no
\* name that is not in endpoints_params
PatternShape(p, pat) ==
    /\ Len(pat.entries) = Len(p.endpoints_params)
    /\ pat.paren <=> Len(pat.entries) # 1
    /\ NamesIn(pat.entries) \subseteq RangeOf(p.endpoints_params)

C30_PatternsMatchPathParameters ==
    (returned /\ Len(urls) > 1) =>
        \A k \in DOMAIN path_params :
            /\ Len(pattern_params(path_params[k]).entries) = Len(path_parameters)
            /\ path_params[k].mandatory_parameters
                    \cap path_params[k].optional_parameters = {}
            /\ path_params[k].mandatory_parameters
                    \cup path_params[k].optional_parameters = path_params[k].path

====
